---- MODULE Spec2Model ----
(***************************************************************************)
(* ultiserve: the request handler on_get of src/main.rs and the rendering *)
(* functions it calls, over a small file system.  Strings, file names and  *)
(* paths are sequences of bytes; the only non-ASCII byte used is 255,      *)
(* which is never part of valid UTF-8.                                     *)
(***************************************************************************)
EXTENDS Integers, Sequences, FiniteSets, TLC

VARIABLES
    fs,          \* the file system: absolute path -> "dir", "file" or "none"
    fsChanges,   \* changes made to it by other processes so far
    pc,          \* where on_get stands: idle, read_dir, next_entry, read, done
    full_path,   \* the request's URL path
    get_params,  \* the request's query: [raw]
    path,        \* the PathBuf on_get builds
    dirStream,   \* names the open ReadDir has yet to return
    opened,      \* the directory read_dir opened and its children then
    files,       \* the Vec<FileEntry> being filled
    bytes,       \* what tokio::fs::read returned
    document,    \* the document comrak parsed
    mutated,     \* the arena after iter_nodes, with the order of the visits
    reads,       \* absolute paths opened as a directory or read as a file
    ops,         \* the reads attempted, in order
    replies      \* what on_get returned

vars == <<fs, fsChanges, pc, full_path, get_params, path, dirStream, opened,
          files, bytes, document, mutated, reads, ops, replies>>

\* ------------------------------------------------------------------ bounds
\* Number of concurrent file-system changes made by other processes.
MaxFsChanges == 1
\* Largest number of nodes of a parsed Markdown document.
MaxNodes == 4

\* ------------------------------------------------------------------- bytes
Slash == 47
Dot == 46
\* The first byte that is not ASCII.
NonAscii == 128

Some(v) == [some |-> TRUE, val |-> v]
None == [some |-> FALSE, val |-> <<>>]

IsPrefix(s, t) == Len(s) <= Len(t) /\ SubSeq(t, 1, Len(s)) = s

Last(s) == s[Len(s)]

\* String::from_utf8 / OsStr::to_str succeed on these bytes.
IsUtf8(s) == \A i \in 1..Len(s) : s[i] < NonAscii

\* OsStr::to_string_lossy: every invalid byte becomes U+FFFD (EF BF BD).
RECURSIVE ToStringLossy(_)
ToStringLossy(s) ==
    IF s = <<>> THEN <<>>
    ELSE (IF s[1] < NonAscii THEN <<s[1]>> ELSE <<239, 191, 189>>)
         \o ToStringLossy(Tail(s))

\* str::trim_start_matches(c)
RECURSIVE TrimStartMatches(_, _)
TrimStartMatches(s, c) ==
    IF s # <<>> /\ s[1] = c THEN TrimStartMatches(Tail(s), c) ELSE s

\* str::trim_end_matches(c)
RECURSIVE TrimEndMatches(_, _)
TrimEndMatches(s, c) ==
    IF s # <<>> /\ Last(s) = c
    THEN TrimEndMatches(SubSeq(s, 1, Len(s) - 1), c)
    ELSE s

\* The components of s between the separators c (empty ones included).
RECURSIVE Split(_, _)
Split(s, c) ==
    IF \A i \in 1..Len(s) : s[i] # c THEN <<s>>
    ELSE LET i == CHOOSE k \in 1..Len(s) :
                      s[k] = c /\ \A j \in 1..(k - 1) : s[j] # c
         IN <<SubSeq(s, 1, i - 1)>> \o Split(SubSeq(s, i + 1, Len(s)), c)

\* Ord for str: byte-wise lexicographic comparison; -1, 0 or 1.
RECURSIVE Cmp(_, _)
Cmp(a, b) ==
    IF a = <<>> /\ b = <<>> THEN 0
    ELSE IF a = <<>> THEN -1
    ELSE IF b = <<>> THEN 1
    ELSE IF a[1] < b[1] THEN -1
    ELSE IF a[1] > b[1] THEN 1
    ELSE Cmp(Tail(a), Tail(b))

\* ------------------------------------------------------------ file names
n_etc == <<101, 116, 99>>                                  \* etc
n_pw == <<112, 119>>                                       \* pw
n_srv == <<115, 114, 118>>                                 \* srv
n_a == <<97>>                                              \* a
n_a_txt == <<97, 46, 116, 120, 116>>                       \* a.txt
n_ff == <<255>>                                            \* not UTF-8
n_d == <<100>>                                             \* d
n_x == <<120>>                                             \* x
n_p_html == <<112, 46, 104, 116, 109, 108>>                \* p.html
n_p_html5 == <<112, 46, 104, 116, 109, 108, 53>>           \* p.html5
n_q_HTML == <<113, 46, 72, 84, 77, 76>>                    \* q.HTML
n_dothtml == <<46, 104, 116, 109, 108>>                    \* .html
n_r_md == <<114, 46, 109, 100>>                            \* r.md
n_w_markdown == <<119, 46, 109, 97, 114, 107, 100, 111, 119, 110>>
n_s_rs == <<115, 46, 114, 115>>                            \* s.rs
n_t_zz == <<116, 46, 122, 122>>                            \* t.zz
n_u == <<117>>                                             \* u
n_zz == <<122, 122>>                                       \* zz (absent)
DotDot == <<Dot, Dot>>

e_html == <<104, 116, 109, 108>>
e_html5 == <<104, 116, 109, 108, 53>>
e_HTML == <<72, 84, 77, 76>>
e_md == <<109, 100>>
e_markdown == <<109, 97, 114, 107, 100, 111, 119, 110>>
e_rs == <<114, 115>>
e_txt == <<116, 120, 116>>
e_zz == <<122, 122>>

\* ------------------------------------------------------------ file system
\* An absolute path is the sequence of names from the system root.
Root == <<n_srv>>

\* The file system before any request: /etc/pw lies outside the served
\* directory /srv.
Fs0 ==
    (<<>> :> "dir") @@ (<<n_etc>> :> "dir") @@ (<<n_etc, n_pw>> :> "file")
    @@ (Root :> "dir")
    @@ (Root \o <<n_a>> :> "dir") @@ (Root \o <<n_a, n_x>> :> "file")
    @@ (Root \o <<n_a_txt>> :> "file")
    @@ (Root \o <<n_ff>> :> "dir")
    @@ (Root \o <<n_d>> :> "dir")
    @@ (Root \o <<n_d, n_p_html>> :> "file")
    @@ (Root \o <<n_d, n_p_html5>> :> "file")
    @@ (Root \o <<n_d, n_q_HTML>> :> "file")
    @@ (Root \o <<n_d, n_dothtml>> :> "file")
    @@ (Root \o <<n_d, n_r_md>> :> "file")
    @@ (Root \o <<n_d, n_w_markdown>> :> "file")
    @@ (Root \o <<n_d, n_s_rs>> :> "file")
    @@ (Root \o <<n_d, n_t_zz>> :> "file")
    @@ (Root \o <<n_d, n_u>> :> "file")

\* The paths another process may create, delete or replace while a request runs.
Volatile == {Root \o <<n_a_txt>>}

Kind(f, p) == IF p \in DOMAIN f THEN f[p] ELSE "none"

Parent(p) == IF p = <<>> THEN <<>> ELSE SubSeq(p, 1, Len(p) - 1)

\* The names of the immediate children of directory p.
Children(f, p) ==
    {Last(q) : q \in {q \in DOMAIN f : q # <<>> /\ Parent(q) = p /\ f[q] # "none"}}

\* Path resolution by the operating system: every component is looked up in
\* the directory reached so far; "" and "." stay, ".." goes to the parent.
RECURSIVE Walk(_, _, _)
Walk(f, cur, comps) ==
    IF comps = <<>> THEN [ok |-> TRUE, abs |-> cur]
    ELSE IF Kind(f, cur) # "dir" THEN [ok |-> FALSE, abs |-> cur]
    ELSE LET c == Head(comps) IN
         IF c = <<>> \/ c = <<Dot>> THEN Walk(f, cur, Tail(comps))
         ELSE IF c = DotDot THEN Walk(f, Parent(cur), Tail(comps))
         ELSE IF Kind(f, cur \o <<c>>) = "none" THEN [ok |-> FALSE, abs |-> cur]
         ELSE Walk(f, cur \o <<c>>, Tail(comps))

Resolve(f, p) == Walk(f, <<>>, Split(p, Slash))

\* Path::is_dir
IsDir(f, p) == LET r == Resolve(f, p) IN r.ok /\ Kind(f, r.abs) = "dir"

\* A path that a read can open as a regular file.
IsFile(f, p) == LET r == Resolve(f, p) IN r.ok /\ Kind(f, r.abs) = "file"

\* ------------------------------------------------------------------ paths
\* tools.opt.dir, the directory to serve.
RootDir == <<Slash>> \o n_srv

\* PathBuf::push: an absolute argument replaces the path, any other is
\* appended after a separator.
Push(p, s) ==
    IF s # <<>> /\ s[1] = Slash THEN s
    ELSE IF p # <<>> /\ Last(p) # Slash THEN p \o <<Slash>> \o s
    ELSE p \o s

\* Path::join
Join(p, s) == Push(p, s)

\* Path::file_name: the last component, unless the path ends in "..".
FileName(p) ==
    LET comps == SelectSeq(Split(p, Slash), LAMBDA c : c # <<>> /\ c # <<Dot>>)
    IN IF comps = <<>> \/ Last(comps) = DotDot THEN None ELSE Some(Last(comps))

\* Path::extension: what follows the last dot of the file name, when
\* something precedes that dot.
Extension(p) ==
    LET fname == FileName(p) IN
    IF ~fname.some THEN None
    ELSE LET f == fname.val
             dots == {i \in 1..Len(f) : f[i] = Dot}
         IN IF dots = {} THEN None
            ELSE LET i == CHOOSE k \in dots : \A j \in dots : j <= k
                 IN IF i = 1 THEN None ELSE Some(SubSeq(f, i + 1, Len(f)))

\* OsStr::to_str
ToStr(o) == IF o.some /\ IsUtf8(o.val) THEN o ELSE None

\* "<unknown>"
Unknown == <<60, 117, 110, 107, 110, 111, 119, 110, 62>>

RECURSIVE PathBytes(_)
PathBytes(abs) ==
    IF abs = <<>> THEN <<>> ELSE <<Slash>> \o Head(abs) \o PathBytes(Tail(abs))

\* path.canonicalize().map(to_string_lossy).unwrap_or_else("<unknown>")
CanonicalName(f, p) ==
    LET r == Resolve(f, p) IN
    IF ~r.ok THEN Unknown
    ELSE IF r.abs = <<>> THEN <<Slash>>
    ELSE ToStringLossy(PathBytes(r.abs))

\* ---------------------------------------------------------------- replies
NoData == [none |-> TRUE]

\* reply::html of a rendered template, or of a string (template "none").
HtmlReply(template, body, data) ==
    [kind |-> "html", template |-> template, body |-> body, data |-> data,
     err |-> "none"]

\* A faulty variant of StringReply: the text is sent highlighted.
StringReply_Highlighted(text) ==
    [kind |-> "string", template |-> "none",
     body |-> <<60, 112, 114, 101, 62>> \o text, data |-> NoData,
     err |-> "none"]

\* Box::new(file_content): the text itself as the reply.
StringReply(text) ==
    [kind |-> "string", template |-> "none", body |-> text, data |-> NoData,
     err |-> "none"]

\* Box::new(bytes)
BytesReply(b) ==
    [kind |-> "bytes", template |-> "none", body |-> b, data |-> NoData,
     err |-> "none"]

Rejection(err) ==
    [kind |-> "rejection", template |-> "none", body |-> <<>>, data |-> NoData,
     err |-> err]

\* reject::custom(UltiserveReject::RenderFail)
RenderFail == Rejection("RenderFail")

\* UltiserveReject::MarkdownFail
MarkdownFail == Rejection("MarkdownFail")

\* A faulty variant of NotFound: the missing file reported as a render failure.
NotFound_AsRenderFail == Rejection("RenderFail")

\* reject::reject(): warp's not-found rejection, HTTP 404.
NotFound == Rejection("not_found")

\* --------------------------------------------------------- directory index
FileEntry(name, is_dir) == [name |-> name, is_dir |-> is_dir]

\* A faulty variant of EntryCmp: the arguments swapped.
EntryCmp_Swapped(a, b) == Cmp(b.name, a.name)

\* |a, b| a.name.cmp(&b.name)
EntryCmp(a, b) == Cmp(a.name, b.name)

\* Insertion of e after every element that is not greater (stable).
RECURSIVE Insert(_, _)
Insert(sorted, e) ==
    IF sorted = <<>> THEN <<e>>
    ELSE IF EntryCmp(e, Head(sorted)) < 0 THEN <<e>> \o sorted
    ELSE <<Head(sorted)>> \o Insert(Tail(sorted), e)

\* files.sort_by(...): a stable sort.
RECURSIVE SortBy(_)
SortBy(s) ==
    IF s = <<>> THEN <<>>
    ELSE Insert(SortBy(SubSeq(s, 1, Len(s) - 1)), Last(s))

\* The body of the while loop for one directory entry.
MakeEntry(f, p, osname) ==
    LET name == ToStringLossy(osname) IN
    IF IsDir(f, Join(p, name))
    THEN FileEntry(name \o <<Slash>>, TRUE)
    ELSE FileEntry(name, FALSE)

\* has_parent: full_path != "/"
HasParent(fp) == fp # <<Slash>>

IndexContent(f, p, fp, fl) ==
    [files |-> SortBy(fl),
     full_current_dir |-> CanonicalName(f, p),
     current_dir |-> TrimEndMatches(fp, Slash),
     has_parent |-> HasParent(fp)]

\* The index page, or RenderFail when serialization or the template fails.
IndexReply(content, renderOk) ==
    IF renderOk THEN HtmlReply("index.html", <<>>, content) ELSE RenderFail

\* ------------------------------------------------------------ highlighting
\* The tokens for which the loaded SyntaxSet has a grammar (syntect matches
\* a file extension without regard to ASCII case).
SyntaxTokens == {e_rs, e_txt, e_html, e_HTML, e_md}

\* highlighted_html_for_string: a <pre> element naming the grammar and
\* holding the content; never equal to the content itself.
HighlightedHtml(token, content) ==
    <<60, 112, 114, 101, 32>> \o token \o <<62>> \o content
    \o <<60, 47, 112, 114, 101, 62>>

\* syntax_highlight_html
SyntaxHighlightHtml(file_ext, content) ==
    IF file_ext \in SyntaxTokens
    THEN Some(HighlightedHtml(file_ext, content))
    ELSE None

\* ---------------------------------------------------------------- Markdown
\* A node value of the comrak AST.
NodeValue(kind, fenced, info, literal) ==
    [kind |-> kind, fenced |-> fenced, info |-> info, literal |-> literal]

\* NodeValue::HtmlBlock(NodeHtmlBlock { literal, .. })
HtmlBlock(literal) == NodeValue("HtmlBlock", FALSE, <<>>, literal)

\* "fn" as the text of a code block.
CodeText == <<102, 110>>

\* The values a node below the document node has after parsing.
ParsedValues ==
    {NodeValue("BlockQuote", FALSE, <<>>, <<>>),
     NodeValue("Paragraph", FALSE, <<>>, CodeText),
     NodeValue("CodeBlock", TRUE, e_rs, CodeText),
     NodeValue("CodeBlock", TRUE, e_zz, CodeText),
     NodeValue("CodeBlock", FALSE, <<>>, CodeText)}

IsContainer(v) == v.kind \in {"Document", "BlockQuote"}

\* The elements of a set of numbers in ascending order.
RECURSIVE Ascending(_)
Ascending(S) ==
    IF S = {} THEN <<>>
    ELSE LET m == CHOOSE x \in S : \A y \in S : x <= y
         IN <<m>> \o Ascending(S \ {m})

\* The arena of a document of n nodes: node 1 is the document, par gives
\* every other node's parent and val its value.
MkDoc(n, par, val) ==
    [children |-> [i \in 1..n |-> Ascending({j \in 2..n : par[j] = i})],
     value |-> [i \in 1..n |->
                   IF i = 1 THEN NodeValue("Document", FALSE, <<>>, <<>>)
                   ELSE val[i]]]

\* The trees of n nodes: every node but the first has a parent before it.
Shapes(n) == {q \in [2..n -> 1..n] : \A j \in 2..n : q[j] < j}

\* The values of the nodes of such a tree: only a container has children.
Values(n, par) ==
    {v \in [2..n -> ParsedValues] :
        \A j \in 2..n : par[j] = 1 \/ IsContainer(v[par[j]])}

DocsOf(n) ==
    UNION {{MkDoc(n, par, val) : val \in Values(n, par)} : par \in Shapes(n)}

\* The documents comrak::parse_document may return: every tree of at most
\* MaxNodes nodes.
ParsedDocs == UNION {DocsOf(n) : n \in 1..MaxNodes}

\* The closure passed to iter_nodes: a fenced code block whose info string
\* has a grammar gets an HTML block as its value.  visited records the
\* calls of the closure.
HighlightFence(node, st) ==
    LET v == st.value[node]
        new_val ==
            IF v.kind = "CodeBlock" /\ v.fenced
               /\ IsUtf8(v.info) /\ IsUtf8(v.literal)
            THEN LET html == SyntaxHighlightHtml(v.info, v.literal)
                 IN IF html.some THEN Some(HtmlBlock(html.val)) ELSE None
            ELSE None
    IN [children |-> st.children,
        value |-> IF new_val.some
                  THEN [st.value EXCEPT ![node] = new_val.val]
                  ELSE st.value,
        visited |-> Append(st.visited, node)]

\* iter_nodes: f(node), then iter_nodes for every child in order.
RECURSIVE IterNodes(_, _)
RECURSIVE IterChildren(_, _)
\* A faulty variant of IterNodes: the children are walked before f(node).
IterNodes_ChildrenFirst(node, st) ==
    HighlightFence(node, IterChildren(st.children[node], st))

IterNodes(node, st) ==
    LET after == HighlightFence(node, st)
    IN IterChildren(after.children[node], after)

IterChildren(cs, st) ==
    IF cs = <<>> THEN st
    ELSE IterChildren(Tail(cs), IterNodes(Head(cs), st))

\* iter_nodes(document, ...) on a parsed document.
WalkDocument(doc) ==
    IterNodes(1, [children |-> doc.children, value |-> doc.value,
                  visited |-> <<>>])

\* comrak::format_html: the nodes in document order; an HTML block is
\* written as it is, the text of any other node between angle brackets.
RECURSIVE FormatNode(_, _)
RECURSIVE FormatNodes(_, _)
FormatNode(st, node) ==
    LET v == st.value[node] IN
    IF v.kind = "HtmlBlock" THEN v.literal
    ELSE <<60>> \o v.info \o <<62>> \o v.literal
         \o FormatNodes(st, st.children[node]) \o <<60, 47, 62>>

FormatNodes(st, cs) ==
    IF cs = <<>> THEN <<>>
    ELSE FormatNode(st, Head(cs)) \o FormatNodes(st, Tail(cs))

FormatHtml(st) == FormatNode(st, 1)

\* ------------------------------------------------------------ file replies
\* "?raw=true"
RawQuery == <<63, 114, 97, 119, 61, 116, 114, 117, 101>>

FileContent(f, p, content, unsafe_content, url) ==
    [content |-> content,
     unsafe_content |-> unsafe_content,
     file_name |-> CanonicalName(f, p),
     raw_url |-> url \o RawQuery]

\* create_file_reply
CreateFileReply(f, p, content, unsafe_content, url, renderOk) ==
    IF renderOk
    THEN HtmlReply("file.html", <<>>,
                   FileContent(f, p, content, unsafe_content, url))
    ELSE RenderFail

\* render_markdown_to_reply, given the parsed document.
RenderMarkdownToReply(f, p, doc, url, formatOk, renderOk) ==
    IF ~formatOk THEN MarkdownFail
    ELSE CreateFileReply(f, p, FormatHtml(WalkDocument(doc)), TRUE, url,
                         renderOk)

\* A faulty variant of IsHtmlExt: html5 forgotten.
IsHtmlExt_OnlyHtml(file_ext) == file_ext.some /\ file_ext.val = e_html

\* Some("html") | Some("html5")
IsHtmlExt(file_ext) == file_ext.some /\ file_ext.val \in {e_html, e_html5}

\* Some("md") | Some("markdown")
IsMarkdownExt(file_ext) ==
    file_ext.some /\ file_ext.val \in {e_md, e_markdown}

\* A faulty variant of RenderOther: unsafe_content is set before the highlighter
\* is asked.
RenderOther_AlwaysUnsafe(f, p, content, file_ext, url, renderOk) ==
    LET highlighted ==
            IF file_ext.some THEN SyntaxHighlightHtml(file_ext.val, content)
            ELSE None
    IN CreateFileReply(f, p,
                       IF highlighted.some THEN highlighted.val ELSE content,
                       TRUE, url, renderOk)

\* The last arm of render_file_to_reply: highlight by extension.
RenderOther(f, p, content, file_ext, url, renderOk) ==
    LET highlighted ==
            IF file_ext.some THEN SyntaxHighlightHtml(file_ext.val, content)
            ELSE None
    IN IF highlighted.some
       THEN CreateFileReply(f, p, highlighted.val, TRUE, url, renderOk)
       ELSE CreateFileReply(f, p, content, FALSE, url, renderOk)

\* render_file_to_reply
RenderFileToReply(f, p, content, url, doc, formatOk, renderOk) ==
    LET file_ext == ToStr(Extension(p)) IN
    IF IsHtmlExt(file_ext) THEN HtmlReply("none", content, NoData)
    ELSE IF IsMarkdownExt(file_ext)
    THEN RenderMarkdownToReply(f, p, doc, url, formatOk, renderOk)
    ELSE RenderOther(f, p, content, file_ext, url, renderOk)

\* ----------------------------------------------------------------- inputs
S == <<Slash>>

\* The URL paths requested.  warp hands over the path as sent: it starts
\* with "/", and neither ".." nor repeated separators are removed.
Urls ==
    {S, S \o S, S \o n_a, S \o n_a \o S, S \o n_a_txt, S \o n_a_txt \o S,
     S \o n_zz, S \o n_d \o S \o DotDot,
     S \o DotDot \o S \o n_etc, S \o DotDot \o S \o n_etc \o S \o n_pw,
     S \o n_d \o S \o n_p_html, S \o S \o n_d \o S \o n_p_html5,
     S \o n_d \o S \o n_q_HTML, S \o n_d \o S \o n_dothtml,
     S \o n_d \o S \o n_r_md, S \o n_d \o S \o n_w_markdown,
     S \o n_d \o S \o n_s_rs, S \o n_d \o S \o n_t_zz, S \o n_d \o S \o n_u}

\* File contents: the text "<b>", and one byte that is not UTF-8.
Contents == {<<60, 98, 62>>, <<255>>}

\* ---------------------------------------------------------------- actions
Init ==
    /\ fs = Fs0
    /\ fsChanges = 0
    /\ pc = "idle"
    /\ full_path = <<>>
    /\ get_params = [raw |-> FALSE]
    /\ path = <<>>
    /\ dirStream = {}
    /\ opened = None
    /\ files = <<>>
    /\ bytes = None
    /\ document = None
    /\ mutated = None
    /\ reads = {}
    /\ ops = <<>>
    /\ replies = <<>>

\* The path on_get reads: the served directory with the URL path, less its
\* leading separators, pushed onto it.
RequestPath(fp) == Push(RootDir, TrimStartMatches(fp, Slash))

\* on_get up to its first await.
Request(fp, raw) ==
    /\ pc = "idle"
    /\ full_path' = fp
    /\ get_params' = [raw |-> raw]
    /\ path' = RequestPath(fp)
    /\ pc' = "read_dir"
    /\ UNCHANGED <<fs, fsChanges, dirStream, opened, files, bytes, document,
                   mutated, reads, ops, replies>>

\* tokio::fs::read_dir(&path).await
ReadDir(ioOk) ==
    /\ pc = "read_dir"
    /\ ops' = Append(ops, "read_dir")
    /\ IF ioOk /\ IsDir(fs, path)
       THEN LET abs == Resolve(fs, path).abs IN
            /\ opened' = Some([abs |-> abs, names |-> Children(fs, abs)])
            /\ dirStream' = Children(fs, abs)
            /\ reads' = reads \cup {abs}
            /\ pc' = "next_entry"
       ELSE /\ pc' = "read"
            /\ UNCHANGED <<opened, dirStream, reads>>
    /\ UNCHANGED <<fs, fsChanges, full_path, get_params, path, files, bytes,
                   document, mutated, replies>>

\* dir.next_entry().await returned Ok(Some(entry)): one turn of the loop.
NextEntrySome(osname) ==
    /\ pc = "next_entry"
    /\ osname \in dirStream
    /\ dirStream' = dirStream \ {osname}
    /\ files' = Append(files, MakeEntry(fs, path, osname))
    /\ UNCHANGED <<fs, fsChanges, pc, full_path, get_params, path, opened,
                   bytes, document, mutated, reads, ops, replies>>

\* dir.next_entry().await returned Ok(None), or an error: the loop ends, the
\* entries are sorted and the index page is rendered.
NextEntryEnd(ioOk, renderOk) ==
    /\ pc = "next_entry"
    /\ ioOk => dirStream = {}
    /\ replies' = Append(replies,
                         IndexReply(IndexContent(fs, path, full_path, files),
                                    renderOk))
    /\ pc' = "done"
    /\ UNCHANGED <<fs, fsChanges, full_path, get_params, path, dirStream,
                   opened, files, bytes, document, mutated, reads, ops>>

\* A faulty variant of FileReply: the raw parameter is looked at first.
FileReply_RawFirst(f, p, content, raw, url, doc, formatOk, renderOk) ==
    IF raw THEN StringReply(content)
    ELSE IF IsUtf8(content)
    THEN RenderFileToReply(f, p, content, url, doc, formatOk, renderOk)
    ELSE BytesReply(content)

\* The reply to a file that was read: the match on String::from_utf8.
FileReply(f, p, content, raw, url, doc, formatOk, renderOk) ==
    IF IsUtf8(content)
    THEN IF raw THEN StringReply(content)
         ELSE RenderFileToReply(f, p, content, url, doc, formatOk, renderOk)
    ELSE BytesReply(content)

\* Whether render_markdown_to_reply is reached.
ReachesMarkdown(p, content, raw) ==
    IsUtf8(content) /\ ~raw /\ IsMarkdownExt(ToStr(Extension(p)))

\* tokio::fs::read(&path).await and all that follows it.
ReadFile(ioOk, content, doc, formatOk, renderOk) ==
    /\ pc = "read"
    /\ ops' = Append(ops, "read")
    /\ IF ioOk /\ IsFile(fs, path)
       THEN LET md == ReachesMarkdown(path, content, get_params.raw) IN
            /\ bytes' = Some(content)
            /\ reads' = reads \cup {Resolve(fs, path).abs}
            /\ document' = IF md THEN Some(doc) ELSE None
            /\ mutated' = IF md THEN Some(WalkDocument(doc)) ELSE None
            /\ replies' = Append(replies,
                                 FileReply(fs, path, content, get_params.raw,
                                           TrimEndMatches(full_path, Slash),
                                           doc, formatOk, renderOk))
       ELSE /\ replies' = Append(replies, NotFound)
            /\ UNCHANGED <<bytes, reads, document, mutated>>
    /\ pc' = "done"
    /\ UNCHANGED <<fs, fsChanges, full_path, get_params, path, dirStream,
                   opened, files>>

\* Another process creates, deletes or replaces a file or directory while
\* the request is being handled.
FsChange(p, k) ==
    /\ pc # "done"
    /\ fsChanges < MaxFsChanges
    /\ Kind(fs, Parent(p)) = "dir"
    /\ k # fs[p]
    /\ fs' = [fs EXCEPT ![p] = k]
    /\ fsChanges' = fsChanges + 1
    /\ UNCHANGED <<pc, full_path, get_params, path, dirStream, opened, files,
                   bytes, document, mutated, reads, ops, replies>>

\* The documents the parser may return for a file that is rendered as
\* Markdown; the document is not looked at otherwise.
DocsFor(p, content, raw) ==
    IF ReachesMarkdown(p, content, raw) THEN ParsedDocs
    ELSE {MkDoc(1, <<>>, <<>>)}

Next ==
    \/ \E fp \in Urls, raw \in BOOLEAN : Request(fp, raw)
    \/ \E ioOk \in BOOLEAN : ReadDir(ioOk)
    \/ \E osname \in dirStream : NextEntrySome(osname)
    \/ \E ioOk, renderOk \in BOOLEAN : NextEntryEnd(ioOk, renderOk)
    \/ /\ pc = "read"
       /\ \E ioOk, formatOk, renderOk \in BOOLEAN, content \in Contents :
             \E doc \in DocsFor(path, content, get_params.raw) :
                 ReadFile(ioOk, content, doc, formatOk, renderOk)
    \/ \E p \in Volatile, k \in {"dir", "file", "none"} : FsChange(p, k)

Spec == Init /\ [][Next]_vars

\* ------------------------------------------------------------------ claims
Done == pc = "done"

\* The reply of a finished request.
TheReply == replies[1]

IsIndexPage(r) == r.kind = "html" /\ r.template = "index.html"

IsFilePage(r) == r.kind = "html" /\ r.template = "file.html"

IsServerError(r) ==
    r.kind = "rejection" /\ r.err \in {"RenderFail", "MarkdownFail"}

IsNotFound(r) == r.kind = "rejection" /\ r.err = "not_found"

\* The file was read and its content is valid UTF-8.
ReadText == bytes.some /\ IsUtf8(bytes.val)

\* C1: every path that on_get opened as a directory or read as a file lies
\* beneath the served directory.
C1_ReadsBeneathRoot == \A r \in reads : IsPrefix(Root, r)

\* C2: when neither the directory read nor the file read succeeds the
\* request is rejected as not found, and a RenderFail or MarkdownFail
\* rejection is given only after one of the two reads succeeded.
C2_NotFoundNeverServerError ==
    Done =>
        /\ (~opened.some /\ ~bytes.some) =>
               Len(replies) = 1 /\ IsNotFound(TheReply)
        /\ IsServerError(TheReply) => (opened.some \/ bytes.some)

\* C2 witness: a request for a path that does not exist was rejected.
C2_Witness ==
    /\ Done
    /\ ~Resolve(fs, path).ok
    /\ ops = <<"read_dir", "read">>
    /\ IsNotFound(TheReply)

\* The child's name as the listing shows it, without the separator.
ShownName(entry) ==
    IF entry.is_dir THEN SubSeq(entry.name, 1, Len(entry.name) - 1)
    ELSE entry.name

\* C3: the listing of an opened directory has exactly one entry for every
\* child the directory had, and an entry is marked as a directory, and its
\* name ends in the separator, exactly when the child is a directory.
C3_ListingExact ==
    (Done /\ opened.some /\ IsIndexPage(TheReply)) =>
        LET fl == TheReply.data.files
            dir == opened.val
        IN /\ Len(fl) = Cardinality(dir.names)
           /\ \A n \in dir.names :
                 \E i \in 1..Len(fl) :
                     /\ ShownName(fl[i]) = ToStringLossy(n)
                     /\ fl[i].is_dir = (Kind(fs, dir.abs \o <<n>>) = "dir")
           /\ \A i \in 1..Len(fl) :
                 fl[i].is_dir = (fl[i].name # <<>> /\ Last(fl[i].name) = Slash)

\* C4 as stated: the entries of a listing are in ascending byte order of
\* the children's names, the separator of a directory left aside.
C4_SortedByChildName ==
    (Done /\ IsIndexPage(TheReply)) =>
        LET fl == TheReply.data.files IN
        \A i, j \in 1..Len(fl) :
            i < j => Cmp(ShownName(fl[i]), ShownName(fl[j])) <= 0

\* C4 amended: the entries of a listing are in ascending byte order of
\* their display names, the separator of a directory included.
C4_SortedByDisplayName ==
    (Done /\ IsIndexPage(TheReply)) =>
        LET fl == TheReply.data.files IN
        \A i, j \in 1..Len(fl) : i < j => Cmp(fl[i].name, fl[j].name) <= 0

\* C4 witness: a listing that shows the file a.txt before the directory a.
C4_Witness ==
    /\ Done
    /\ IsIndexPage(TheReply)
    /\ LET fl == TheReply.data.files IN
       \E i, j \in 1..Len(fl) :
           /\ i < j
           /\ fl[i] = FileEntry(n_a_txt, FALSE)
           /\ fl[j] = FileEntry(n_a \o <<Slash>>, TRUE)

\* C5: a listing has has_parent = FALSE exactly when the request path, its
\* leading separators trimmed, is the root.
C5_HasParentIffNotRoot ==
    (Done /\ IsIndexPage(TheReply)) =>
        (TheReply.data.has_parent = FALSE
            <=> TrimStartMatches(full_path, Slash) = <<>>)

\* C6: a request with raw=true for a file of valid UTF-8 is answered with
\* exactly the file's text, and no document is parsed or walked for it.
C6_RawVerbatim ==
    (Done /\ ReadText /\ get_params.raw) =>
        /\ Len(replies) = 1
        /\ TheReply.kind = "string"
        /\ TheReply.template = "none"
        /\ TheReply.body = bytes.val
        /\ ~document.some
        /\ ~mutated.some

\* C6 witness: a Markdown file was requested with raw=true.
C6_Witness ==
    /\ Done
    /\ ReadText
    /\ get_params.raw
    /\ FileName(path) = Some(n_r_md)
    /\ TheReply.body = bytes.val

\* The reply is the text handed to reply::html without a template.
IsPassthrough(r) == r.kind = "html" /\ r.template = "none"

\* C7: without raw=true, a file of valid UTF-8 is passed through as HTML
\* exactly when its extension is html or html5, and the reply is then the
\* file's text, with no document parsed.
C7_HtmlPassthrough ==
    (Done /\ ReadText /\ ~get_params.raw) =>
        LET name == FileName(path).val
            named(ext) ==
                /\ Len(name) > Len(ext) + 1
                /\ SubSeq(name, Len(name) - Len(ext), Len(name))
                       = <<Dot>> \o ext
        IN /\ IsPassthrough(TheReply) <=> (named(e_html) \/ named(e_html5))
           /\ IsPassthrough(TheReply) =>
                  TheReply.body = bytes.val /\ ~document.some

\* C7 witness: p.html5 was passed through.
C7_Witness ==
    /\ Done
    /\ ReadText
    /\ ~get_params.raw
    /\ FileName(path) = Some(n_p_html5)
    /\ IsPassthrough(TheReply)
    /\ TheReply.body = bytes.val

\* C8: in a file page for an extension other than md and markdown,
\* unsafe_content is true exactly when the content is the highlighter's
\* output for the extension and false exactly when it is the file's text; a
\* file page for Markdown always has unsafe_content true.
C8_UnsafeFlag ==
    (Done /\ IsFilePage(TheReply)) =>
        LET ext == ToStr(Extension(path))
            page == TheReply.data
        IN IF ext.some /\ ext.val \in {e_md, e_markdown}
           THEN page.unsafe_content
           ELSE /\ page.unsafe_content <=>
                       (ext.some /\ ext.val \in SyntaxTokens
                        /\ page.content = HighlightedHtml(ext.val, bytes.val))
                /\ ~page.unsafe_content <=> page.content = bytes.val

\* C8 witness: s.rs was highlighted and its page marked unsafe_content.
C8_Witness ==
    /\ Done
    /\ IsFilePage(TheReply)
    /\ FileName(path) = Some(n_s_rs)
    /\ TheReply.data.unsafe_content
    /\ TheReply.data.content = HighlightedHtml(e_rs, bytes.val)

\* The nodes of the subtree of node.
RECURSIVE Subtree(_, _)
Subtree(doc, node) ==
    {node} \cup UNION {Subtree(doc, doc.children[node][i]) :
                          i \in 1..Len(doc.children[node])}

\* order visits every node once, a node before its children, and the whole
\* subtree of a child before the next child.
IsPreOrder(doc, order) ==
    LET nodes == DOMAIN doc.children
        Pos(x) == CHOOSE i \in 1..Len(order) : order[i] = x
    IN /\ Len(order) = Cardinality(nodes)
       /\ {order[i] : i \in 1..Len(order)} = nodes
       /\ \A node \in nodes :
             LET cs == doc.children[node] IN
             /\ \A i \in 1..Len(cs) : Pos(node) < Pos(cs[i])
             /\ \A i, j \in 1..Len(cs) :
                   i < j => \A x \in Subtree(doc, cs[i]) : Pos(x) < Pos(cs[j])

\* A fenced code block whose info string names a grammar.
Eligible(v) == v.kind = "CodeBlock" /\ v.fenced /\ v.info \in SyntaxTokens

\* C9: the walk visits the nodes of the parsed document in pre-order, leaves
\* the tree's shape as it was, replaces the value of every eligible fenced
\* code block by an HTML block with the highlighter's output, and leaves
\* every other value as it was.
C9_WalkPreservesTree ==
    document.some =>
        LET doc == document.val
            after == mutated.val
        IN /\ after.children = doc.children
           /\ DOMAIN after.value = DOMAIN doc.value
           /\ IsPreOrder(doc, after.visited)
           /\ \A n \in DOMAIN doc.value :
                 after.value[n] =
                     IF Eligible(doc.value[n])
                     THEN HtmlBlock(HighlightedHtml(doc.value[n].info,
                                                    doc.value[n].literal))
                     ELSE doc.value[n]

\* C9 witness: a document with a recognized fence inside a block quote,
\* followed by a fence that is not recognized; the walk visits the fence in
\* the block quote before the one after it.
C9_Witness ==
    /\ document.some
    /\ LET doc == document.val
           after == mutated.val
       IN \E q, f, g \in DOMAIN doc.value :
              /\ doc.children[1] = <<q, g>>
              /\ doc.children[q] = <<f>>
              /\ g < f
              /\ Eligible(doc.value[f])
              /\ after.value[f].kind = "HtmlBlock"
              /\ doc.value[g].kind = "CodeBlock" /\ doc.value[g].fenced
              /\ after.value[g] = doc.value[g]
              /\ after.visited = <<1, q, f, g>>

\* C10: a request ends with exactly one reply: the index page or RenderFail
\* when the directory read succeeded, and then no file read was attempted;
\* else, when the file read succeeded, the bytes if they are not UTF-8, the
\* text if raw=true, and otherwise a page or a failure to render; else not
\* found.
C10_OneOutcomeInOrder ==
    /\ Len(replies) <= 1
    /\ Done <=> Len(replies) = 1
    /\ Done =>
          LET r == TheReply IN
          IF opened.some
          THEN /\ ops = <<"read_dir">>
               /\ ~bytes.some
               /\ IsIndexPage(r) \/ (r.kind = "rejection" /\ r.err = "RenderFail")
          ELSE IF bytes.some
          THEN /\ ops = <<"read_dir", "read">>
               /\ IF ~IsUtf8(bytes.val)
                  THEN r.kind = "bytes" /\ r.body = bytes.val
                  ELSE IF get_params.raw
                  THEN r.kind = "string" /\ r.body = bytes.val
                  ELSE IsFilePage(r) \/ IsPassthrough(r) \/ IsServerError(r)
          ELSE /\ ops = <<"read_dir", "read">>
               /\ IsNotFound(r)

\* C10 witness: p.html holding bytes that are not UTF-8 was requested with
\* raw=true and answered with the bytes.
C10_Witness ==
    /\ Done
    /\ get_params.raw
    /\ bytes.some
    /\ ~IsUtf8(bytes.val)
    /\ FileName(path) = Some(n_p_html)
    /\ TheReply.kind = "bytes"

====
